---- MODULE Spec2Model ----
(***************************************************************************)
(* Toolchain resolution (nmigen/_yosys.py) and the Gowin build pipeline    *)
(* (nmigen/vendor/gowin_gw1n.py).                                          *)
(*                                                                         *)
(* The specifications share the variables:                                 *)
(*   SpecFind  find_yosys, one step per loop iteration;                    *)
(*   SpecRun   YosysBinary.run of both providers on one finished process;  *)
(*   SpecSan   _SystemYosys.run on longer stdout texts, exit code 0;       *)
(*   SpecVer   YosysBinary.version of both providers;                      *)
(*   SpecPipe  the ordered execution of the Gowin build steps;             *)
(*   SpecPor   the power-on-reset logic of create_missing_domain, one step *)
(*             per clock edge; SpecPorFair adds the free-running clock;    *)
(*   SpecBanner  _SystemYosys.version on outputs led by banner lines;      *)
(*   SpecPlat  the construction of GowinGW1NPlatform and the reads of its  *)
(*             toolchain-dependent properties.                             *)
(* Text is a sequence of one-character strings, except the value of        *)
(* NMIGEN_USE_YOSYS, which is a sequence of comma-free pieces and commas.  *)
(***************************************************************************)
EXTENDS Integers, Sequences, FiniteSets, TLC

VARIABLES
    \* ---- find_yosys
    environ,      \* os.environ restricted to NMIGEN_USE_YOSYS: [set, value]
    installs,     \* what each provider's installation answers
    requirement,  \* the caller's version check
    pc,           \* position inside find_yosys
    clauses,      \* local `clauses`
    proxies,      \* local `proxies`
    idx,          \* 1-based position of the running for loop
    calls,        \* every provider method / requirement call made so far
    result,       \* what find_yosys returned or raised
    \* ---- YosysBinary.run
    proc,         \* the finished subprocess: [provider, stdout, stderr, returncode]
    runResult,    \* what run() returned or raised
    \* ---- build pipeline
    name,         \* build target name
    fs,           \* files present under the build directory
    step,         \* 1-based position of the next build step
    executed,     \* the steps executed so far, in order: [pos, exit, stderr]
    pipeResult,   \* the ExecutionResult
    \* ---- sanitization applied again
    twice,        \* the returned stdout after a second pass of the re.sub
    \* ---- YosysBinary.version
    pkgVersion,   \* importlib_metadata.version("nmigen_yosys")
    verResult,    \* what version() returned or raised
    \* ---- create_missing_domain, the power-on-reset logic
    default_clk_frequency,  \* the platform's default clock frequency, in Hz
    delay,        \* int(15e-6 * default_clk_frequency)
    default_rst,  \* whether the platform has a default reset resource
    rst_i,        \* the external reset input
    timer,        \* Signal(range(delay))
    ready,        \* Signal()
    reset_sync,   \* the stages of the ResetSynchronizer
    \* ---- GowinGW1NPlatform
    toolchain,    \* the constructor's keyword argument
    platform,     \* the platform object: [state, toolchain]
    access        \* the outcome of the last property read

findVars == <<environ, installs, requirement, pc, clauses, proxies, idx, calls, result>>
runVars  == <<proc, runResult>>
pipeVars == <<name, fs, step, executed, pipeResult>>
verVars  == <<pkgVersion, verResult>>
porVars  == <<default_clk_frequency, delay, default_rst, rst_i, timer, ready, reset_sync>>
platVars == <<toolchain, platform, access>>
extVars  == <<twice, verVars, porVars, platVars>>
vars     == <<findVars, runVars, pipeVars, extVars>>

(***************************************************************************)
(* Bounds                                                                  *)
(***************************************************************************)
MaxEnvLen == 5      \* pieces (names and commas) in NMIGEN_USE_YOSYS
MaxOut    == 6      \* characters of stdout when only sanitization is explored
MaxRunOut == 3      \* characters of stdout when run() is explored
MaxErr    == 3      \* characters of stderr
MaxVer    == 6      \* pieces of a version string
MaxClk    == 8      \* default clock frequency, in steps of ClkStep

(***************************************************************************)
(* Generic text helpers                                                    *)
(***************************************************************************)
SeqsUpTo(S, n) == UNION { [1..k -> S] : k \in 0..n }

(***************************************************************************)
(* NMIGEN_USE_YOSYS and its parsing                                        *)
(***************************************************************************)
Comma == ","
EnvPieces == {"system", "builtin", "bogus", Comma}

\* str.split(","): the pieces between commas; n commas give n+1 clauses, the
\* empty string gives one empty clause.
RECURSIVE Split(_)
Split(s) ==
    IF \A i \in 1..Len(s) : s[i] # Comma
    THEN <<s>>
    ELSE LET k == CHOOSE i \in 1..Len(s) :
                     s[i] = Comma /\ \A j \in 1..(i-1) : s[j] # Comma
         IN <<SubSeq(s, 1, k-1)>> \o Split(SubSeq(s, k+1, Len(s)))

\* ", ".join(clauses)
RECURSIVE Join(_)
Join(cs) ==
    IF cs = <<>> THEN <<>>
    ELSE IF Len(cs) = 1 THEN Head(cs)
    ELSE Head(cs) \o <<", ">> \o Join(Tail(cs))

\* os.environ.get("NMIGEN_USE_YOSYS", "system,builtin")
DefaultValue == <<"system", Comma, "builtin">>
EnvironGet(env) == IF env.set THEN env.value ELSE DefaultValue

\* the if/elif chain of the first loop: the proxy a clause names, "" for none
ProxyOf(clause) ==
    IF clause = <<"builtin">> THEN "builtin"
    ELSE IF clause = <<"system">> THEN "system"
    ELSE ""

(***************************************************************************)
(* Providers                                                               *)
(***************************************************************************)
Versions == { <<1, 9, 0>>, <<2, 3, 5>> }
NoVersion == <<0, 0, 0>>

Ok(v)      == [ok |-> TRUE,  ver |-> v,         exc |-> ""]
Raises(e)  == [ok |-> FALSE, ver |-> NoVersion, exc |-> e]

\* _SystemYosys: has_tool() finds the binary or not; version() runs `yosys -V`
\* and parses it: a triple, TypeError when the pattern does not match (match is
\* None), YosysError on a non-zero exit, OSError when Popen cannot spawn it.
SystemInstalls ==
    { [available |-> FALSE, version |-> Raises("ToolNotFound")] }
    \cup { [available |-> TRUE, version |-> Ok(v)] : v \in Versions }
    \cup { [available |-> TRUE, version |-> Raises(e)] :
             e \in {"TypeError", "YosysError", "OSError"} }

\* _BuiltinYosys: the package record exists or not; version() parses the
\* package version: a triple, or TypeError when the pattern does not match.
BuiltinInstalls ==
    { [available |-> FALSE, version |-> Raises("PackageNotFoundError")] }
    \cup { [available |-> TRUE, version |-> Ok(v)] : v \in Versions }
    \cup { [available |-> TRUE, version |-> Raises("TypeError")] }

\* the caller's requirement functions
Requirements == {"major>=2", "any", "none"}
Requirement(r, v) ==
    CASE r = "major>=2" -> v[1] >= 2
      [] r = "any"      -> TRUE
      [] r = "none"     -> FALSE

(***************************************************************************)
(* find_yosys                                                              *)
(***************************************************************************)
NoResult == [kind |-> "none", proxy |-> "", pos |-> 0, exc |-> "", line |-> 0,
             text |-> <<>>]
Return(p, i) == [kind |-> "return", proxy |-> p, pos |-> i, exc |-> "", line |-> 169,
                 text |-> <<>>]
Raise(e, l, t) == [kind |-> "raise", proxy |-> "", pos |-> 0, exc |-> e, line |-> l,
                   text |-> t]

Call(op, i, p) == [op |-> op, pos |-> i, proxy |-> p, arg |-> NoVersion]
CallWith(op, i, p, v) == [op |-> op, pos |-> i, proxy |-> p, arg |-> v]

IdleRun  == proc = [provider |-> "", stdout |-> <<>>, stderr |-> <<>>, returncode |-> 0]
            /\ runResult = [kind |-> "none", exc |-> "", text |-> <<>>]
NoText == <<"(none)">>
IdleTwice == twice = NoText
NoVerResult == [kind |-> "none", ver |-> NoVersion, exc |-> "", text |-> <<>>]
IdleVer  == pkgVersion = <<>> /\ verResult = NoVerResult
IdlePor  == default_clk_frequency = 0 /\ delay = 0 /\ default_rst = FALSE /\ rst_i = 0 /\ timer = 0 /\ ready = 0
            /\ reset_sync = <<1, 1>>
NoAccess == [property |-> "", kind |-> "none", value |-> <<>>]
IdlePlat == toolchain = <<>> /\ platform = [state |-> "none", toolchain |-> <<>>]
            /\ access = NoAccess
NoPipeResult == [kind |-> "none", step |-> 0, error |-> <<>>]
IdlePipe == name = "" /\ fs = {} /\ step = 0 /\ executed = <<>>
            /\ pipeResult = NoPipeResult

InitFind ==
    /\ environ \in { [set |-> FALSE, value |-> <<>>] }
                   \cup { [set |-> TRUE, value |-> v] : v \in SeqsUpTo(EnvPieces, MaxEnvLen) }
    /\ installs \in [system : SystemInstalls, builtin : BuiltinInstalls]
    /\ requirement \in Requirements
    /\ pc = "start"
    /\ clauses = <<>>
    /\ proxies = <<>>
    /\ idx = 0
    /\ calls = <<>>
    /\ result = NoResult
    /\ IdleRun
    /\ IdlePipe
    /\ IdleTwice /\ IdleVer /\ IdlePor /\ IdlePlat

\* lines 156-157
ReadEnviron ==
    /\ pc = "start"
    /\ proxies' = <<>>
    /\ clauses' = Split(EnvironGet(environ))
    /\ idx' = 1
    /\ pc' = "parse"
    /\ UNCHANGED <<environ, installs, requirement, calls, result>>
    /\ UNCHANGED <<runVars, pipeVars, extVars>>

\* ParseClause with the lookup and the probe in one loop: a recognized clause is
\* probed as soon as it is read.
ParseClauseProbing ==
    /\ pc = "parse"
    /\ idx <= Len(clauses)
    /\ LET clause == clauses[idx]
           proxy  == ProxyOf(clause)
       IN IF proxy # ""
          THEN /\ proxies' = Append(proxies, proxy)
               /\ calls' = Append(calls, Call("available", idx, proxy))
               /\ IF idx = Len(clauses)
                  THEN pc' = "probe" /\ idx' = 1
                  ELSE pc' = "parse" /\ idx' = idx + 1
               /\ UNCHANGED result
          ELSE /\ result' = Raise("YosysError", 164,
                                  <<"unrecognized clause ">> \o clause)
               /\ pc' = "done"
               /\ UNCHANGED <<proxies, idx, calls>>
    /\ UNCHANGED <<environ, installs, requirement, clauses>>
    /\ UNCHANGED <<runVars, pipeVars, extVars>>

\* lines 158-166: one iteration of `for clause in clauses`
ParseClause ==
    /\ pc = "parse"
    /\ idx <= Len(clauses)
    /\ LET clause == clauses[idx]
           proxy  == ProxyOf(clause)
       IN IF proxy # ""
          THEN /\ proxies' = Append(proxies, proxy)
               /\ IF idx = Len(clauses)
                  THEN pc' = "probe" /\ idx' = 1
                  ELSE pc' = "parse" /\ idx' = idx + 1
               /\ UNCHANGED result
          ELSE /\ result' = Raise("YosysError", 164,
                                  <<"unrecognized clause ">> \o clause)
               /\ pc' = "done"
               /\ UNCHANGED <<proxies, idx>>
    /\ UNCHANGED <<environ, installs, requirement, clauses, calls>>
    /\ UNCHANGED <<runVars, pipeVars, extVars>>

\* ProbeProxy without the early return: a hit is remembered and the loop goes on
\* to the next proxy.
ProbeProxyNoReturn ==
    /\ pc = "probe"
    /\ idx <= Len(proxies)
    /\ LET proxy   == proxies[idx]
           inst    == installs[proxy]
           cAvail  == Append(calls, Call("available", idx, proxy))
           cVers   == Append(cAvail, Call("version", idx, proxy))
           cReq    == Append(cVers, CallWith("requirement", idx, proxy,
                                              inst.version.ver))
       IN IF ~inst.available
          THEN /\ calls' = cAvail
               /\ idx' = idx + 1
               /\ UNCHANGED <<pc, result>>
          ELSE IF ~inst.version.ok
          THEN /\ calls' = cVers
               /\ result' = Raise(inst.version.exc, 168, <<>>)
               /\ pc' = "done"
               /\ UNCHANGED idx
          ELSE /\ calls' = cReq
               /\ idx' = idx + 1
               /\ result' = IF Requirement(requirement, inst.version.ver)
                                /\ result.kind # "return"
                             THEN Return(proxy, idx) ELSE result
               /\ pc' = IF idx = Len(proxies) /\ result'.kind = "return"
                        THEN "done" ELSE pc
    /\ UNCHANGED <<environ, installs, requirement, clauses, proxies>>
    /\ UNCHANGED <<runVars, pipeVars, extVars>>

\* ProbeProxy with the condition written the other way round:
\* `requirement(proxy.version()) and proxy.available()`
ProbeProxyVersionFirst ==
    /\ pc = "probe"
    /\ idx <= Len(proxies)
    /\ LET proxy   == proxies[idx]
           inst    == installs[proxy]
           cVers   == Append(calls, Call("version", idx, proxy))
           cReq    == Append(cVers, CallWith("requirement", idx, proxy,
                                              inst.version.ver))
           cAvail  == Append(cReq, Call("available", idx, proxy))
       IN IF ~inst.version.ok
          THEN /\ calls' = cVers
               /\ result' = Raise(inst.version.exc, 168, <<>>)
               /\ pc' = "done"
               /\ UNCHANGED idx
          ELSE IF ~Requirement(requirement, inst.version.ver)
          THEN /\ calls' = cReq
               /\ idx' = idx + 1
               /\ UNCHANGED <<pc, result>>
          ELSE IF inst.available
          THEN /\ calls' = cAvail
               /\ result' = Return(proxy, idx)
               /\ pc' = "done"
               /\ UNCHANGED idx
          ELSE /\ calls' = cAvail
               /\ idx' = idx + 1
               /\ UNCHANGED <<pc, result>>
    /\ UNCHANGED <<environ, installs, requirement, clauses, proxies>>
    /\ UNCHANGED <<runVars, pipeVars, extVars>>

\* lines 167-169: one iteration of `for proxy in proxies`
ProbeProxy ==
    /\ pc = "probe"
    /\ idx <= Len(proxies)
    /\ LET proxy   == proxies[idx]
           inst    == installs[proxy]
           cAvail  == Append(calls, Call("available", idx, proxy))
           cVers   == Append(cAvail, Call("version", idx, proxy))
           cReq    == Append(cVers, CallWith("requirement", idx, proxy,
                                              inst.version.ver))
       IN IF ~inst.available
          THEN /\ calls' = cAvail
               /\ idx' = idx + 1
               /\ UNCHANGED <<pc, result>>
          ELSE IF ~inst.version.ok
          THEN /\ calls' = cVers
               /\ result' = Raise(inst.version.exc, 168, <<>>)
               /\ pc' = "done"
               /\ UNCHANGED idx
          ELSE IF Requirement(requirement, inst.version.ver)
          THEN /\ calls' = cReq
               /\ result' = Return(proxy, idx)
               /\ pc' = "done"
               /\ UNCHANGED idx
          ELSE /\ calls' = cReq
               /\ idx' = idx + 1
               /\ UNCHANGED <<pc, result>>
    /\ UNCHANGED <<environ, installs, requirement, clauses, proxies>>
    /\ UNCHANGED <<runVars, pipeVars, extVars>>

\* Exhausted telling the two cases apart by the value read, not by whether the
\* variable is set
ExhaustedByValue ==
    /\ pc = "probe"
    /\ idx > Len(proxies)
    /\ result' = IF EnvironGet(environ) # DefaultValue
                 THEN Raise("YosysError", 172, <<"Searched: ">> \o Join(clauses))
                 ELSE Raise("YosysError", 175, <<"nmigen_yosys fallback">>)
    /\ pc' = "done"
    /\ UNCHANGED <<environ, installs, requirement, clauses, proxies, idx, calls>>
    /\ UNCHANGED <<runVars, pipeVars, extVars>>

\* lines 170-176: the for loop's else branch
Exhausted ==
    /\ pc = "probe"
    /\ idx > Len(proxies)
    /\ result' = IF environ.set
                 THEN Raise("YosysError", 172, <<"Searched: ">> \o Join(clauses))
                 ELSE Raise("YosysError", 175, <<"nmigen_yosys fallback">>)
    /\ pc' = "done"
    /\ UNCHANGED <<environ, installs, requirement, clauses, proxies, idx, calls>>
    /\ UNCHANGED <<runVars, pipeVars, extVars>>

NextFind == ReadEnviron \/ ParseClause \/ ProbeProxy \/ Exhausted
SpecFind == InitFind /\ [][NextFind]_vars

(***************************************************************************)
(* YosysBinary.run                                                         *)
(***************************************************************************)
NL == "\n"
OutChars == {"-", " ", NL, "x"}
ErrChars == {" ", NL, "e"}
Whitespace == {" ", NL}
ReturnCodes == {0, 1, -9}

\* str.strip()
RECURSIVE LStrip(_)
LStrip(s) == IF s # <<>> /\ Head(s) \in Whitespace THEN LStrip(Tail(s)) ELSE s
RECURSIVE RStrip(_)
RStrip(s) ==
    IF s # <<>> /\ s[Len(s)] \in Whitespace THEN RStrip(SubSeq(s, 1, Len(s) - 1)) ELSE s
Strip(s) == RStrip(LStrip(s))

\* One iteration of the group of r"\A(-- .+\n|\n)*" at the start of s: the number
\* of characters it consumes, 0 when neither alternative matches.  `.` matches
\* no newline, so `-- .+\n` needs "-- ", at least one more character of the
\* same line, and the newline ending that line.
FirstNL(s) ==
    IF \E i \in 1..Len(s) : s[i] = NL
    THEN CHOOSE i \in 1..Len(s) : s[i] = NL /\ \A j \in 1..(i-1) : s[j] # NL
    ELSE 0
GroupMatch(s) ==
    IF Len(s) >= 5 /\ s[1] = "-" /\ s[2] = "-" /\ s[3] = " " /\ FirstNL(s) >= 5
    THEN FirstNL(s)
    ELSE IF Len(s) >= 1 /\ s[1] = NL
    THEN 1
    ELSE 0

\* the substitution without the star: at most one banner line is removed
SanitizeOnce(s) == SubSeq(s, GroupMatch(s) + 1, Len(s))

\* re.sub(r"\A(-- .+\n|\n)*", "", stdout): the greedy star repeats the group
\* while it matches; what is left is kept.
RECURSIVE Sanitize(_)
Sanitize(s) ==
    IF GroupMatch(s) = 0 THEN s
    ELSE Sanitize(SubSeq(s, GroupMatch(s) + 1, Len(s)))

RunReturn(t) == [kind |-> "return", exc |-> "", text |-> t]
RunRaise(e, t) == [kind |-> "raise", exc |-> e, text |-> t]

Processes(outLen, errLen, providers, codes) ==
    [provider : providers, stdout : SeqsUpTo(OutChars, outLen),
     stderr : SeqsUpTo(ErrChars, errLen), returncode : codes]

IdleFind ==
    /\ environ = [set |-> FALSE, value |-> <<>>]
    /\ installs = [system |-> [available |-> FALSE, version |-> Raises("ToolNotFound")],
                   builtin |-> [available |-> FALSE,
                                version |-> Raises("PackageNotFoundError")]]
    /\ requirement = "any"
    /\ pc = "idle" /\ clauses = <<>> /\ proxies = <<>> /\ idx = 0 /\ calls = <<>>
    /\ result = NoResult

InitRun ==
    /\ proc \in Processes(MaxRunOut, MaxErr, {"builtin", "system"}, ReturnCodes)
    /\ runResult = [kind |-> "none", exc |-> "", text |-> <<>>]
    /\ IdleFind
    /\ IdlePipe
    /\ IdleTwice /\ IdleVer /\ IdlePor /\ IdlePlat

InitSan ==
    /\ proc \in Processes(MaxOut, 0, {"system"}, {0})
    /\ runResult = [kind |-> "none", exc |-> "", text |-> <<>>]
    /\ IdleFind
    /\ IdlePipe
    /\ IdleTwice /\ IdleVer /\ IdlePor /\ IdlePlat

\* _BuiltinYosys.run that does not look at the return code
BuiltinRunNoCheck ==
    /\ proc.provider = "builtin"
    /\ runResult.kind = "none"
    /\ runResult' = RunReturn(proc.stdout)
    /\ UNCHANGED <<proc, findVars, pipeVars, extVars>>

\* _BuiltinYosys.run, lines 95-104, from communicate() on
BuiltinRun ==
    /\ proc.provider = "builtin"
    /\ runResult.kind = "none"
    /\ runResult' = IF proc.returncode # 0
                    THEN RunRaise("YosysError", Strip(proc.stderr))
                    ELSE RunReturn(proc.stdout)
    /\ UNCHANGED <<proc, findVars, pipeVars, extVars>>

\* _SystemYosys.run, lines 120-135, from communicate() on
SystemRun ==
    /\ proc.provider = "system"
    /\ runResult.kind = "none"
    /\ LET stdout == Sanitize(proc.stdout)
       IN runResult' = IF proc.returncode # 0
                       THEN RunRaise("YosysError", Strip(proc.stderr))
                       ELSE RunReturn(stdout)
    /\ UNCHANGED <<proc, findVars, pipeVars, extVars>>

NextRun == BuiltinRun \/ SystemRun
SpecRun == InitRun /\ [][NextRun]_vars

\* the substitution of line 131 applied to the text run() returned
SanitizeAgain ==
    /\ runResult.kind = "return"
    /\ twice = NoText
    /\ twice' = Sanitize(runResult.text)
    /\ UNCHANGED <<findVars, runVars, pipeVars, verVars, porVars, platVars>>

NextSan == SystemRun \/ SanitizeAgain
SpecSan == InitSan /\ [][NextSan]_vars

(***************************************************************************)
(* YosysBinary.version                                                     *)
(* A version string is a sequence of pieces: digits, ".", "+", and the     *)
(* words "post" and "Yosys " taken whole; "x" is any other character.      *)
(***************************************************************************)
Digits == {"0", "1"}
BuiltinChars == Digits \cup {".", "post", "x"}
SystemChars  == Digits \cup {"Yosys ", ".", "+", "x"}

\* the length of the run of digits of s that starts at position i: \d+ is greedy
RECURSIVE DigitRun(_, _)
DigitRun(s, i) ==
    IF i <= Len(s) /\ s[i] \in Digits THEN 1 + DigitRun(s, i + 1) ELSE 0

HasAt(s, i, w) == i + Len(w) - 1 <= Len(s) /\ SubSeq(s, i, i + Len(w) - 1) = w

\* re.match(r"^<prefix>(\d+)\.(\d+)(?:<sep>(\d+))?", s): the three groups, the
\* third empty when the optional part does not match; matched is FALSE for None
Match(prefix, sep, s) ==
    LET p1 == Len(prefix) + 1
        n1 == DigitRun(s, p1)
        p2 == p1 + n1 + 1
        n2 == DigitRun(s, p2)
        p3 == p2 + n2 + Len(sep)
        n3 == IF HasAt(s, p2 + n2, sep) THEN DigitRun(s, p3) ELSE 0
    IN IF HasAt(s, 1, prefix) /\ n1 >= 1 /\ HasAt(s, p1 + n1, <<".">>) /\ n2 >= 1
       THEN [matched |-> TRUE, g1 |-> SubSeq(s, p1, p1 + n1 - 1),
             g2 |-> SubSeq(s, p2, p2 + n2 - 1), g3 |-> SubSeq(s, p3, p3 + n3 - 1)]
       ELSE [matched |-> FALSE, g1 |-> <<>>, g2 |-> <<>>, g3 |-> <<>>]

\* r"^(\d+)\.(\d+)(?:\.post(\d+))?" and r"^Yosys (\d+)\.(\d+)(?:\+(\d+))?"
BuiltinMatch(s) == Match(<<>>, <<".", "post">>, s)
SystemMatch(s)  == Match(<<"Yosys ">>, <<"+">>, s)

\* int() of a run of decimal digits
DigitValue(c) == IF c = "0" THEN 0 ELSE 1
RECURSIVE IntOf(_)
IntOf(ds) ==
    IF ds = <<>> THEN 0
    ELSE 10 * IntOf(SubSeq(ds, 1, Len(ds) - 1)) + DigitValue(ds[Len(ds)])

\* the triple with the distance always 0
VersionTupleNoDistance(m) == <<IntOf(m.g1), IntOf(m.g2), 0>>

\* (int(match[1]), int(match[2]), int(match[3] or 0))
VersionTuple(m) ==
    <<IntOf(m.g1), IntOf(m.g2), IF m.g3 = <<>> THEN 0 ELSE IntOf(m.g3)>>

VerReturn(v)   == [kind |-> "return", ver |-> v, exc |-> "", text |-> <<>>]
VerRaise(e, t) == [kind |-> "raise", ver |-> NoVersion, exc |-> e, text |-> t]

\* what _SystemYosys.run gives for a finished process (lines 125-135)
SystemRunResult(p) ==
    IF p.returncode # 0
    THEN RunRaise("YosysError", Strip(p.stderr))
    ELSE RunReturn(Sanitize(p.stdout))

InitVer ==
    /\ \/ /\ proc = [provider |-> "builtin", stdout |-> <<>>, stderr |-> <<>>,
                     returncode |-> 0]
          /\ pkgVersion \in SeqsUpTo(BuiltinChars, MaxVer)
       \/ /\ proc \in [provider : {"system"}, stdout : SeqsUpTo(SystemChars, MaxVer),
                       stderr : {<<>>}, returncode : {0, 1}]
          /\ pkgVersion = <<>>
    /\ runResult = [kind |-> "none", exc |-> "", text |-> <<>>]
    /\ verResult = NoVerResult
    /\ IdleFind
    /\ IdlePipe
    /\ IdleTwice /\ IdlePor /\ IdlePlat

\* _BuiltinYosys.version, lines 89-93; match[1] on None raises TypeError
BuiltinVersion ==
    /\ proc.provider = "builtin"
    /\ verResult.kind = "none"
    /\ LET match == BuiltinMatch(pkgVersion)
       IN verResult' = IF match.matched
                       THEN VerReturn(VersionTuple(match))
                       ELSE VerRaise("TypeError", <<>>)
    /\ UNCHANGED <<pkgVersion, findVars, runVars, pipeVars, twice, porVars, platVars>>

\* _SystemYosys.version, lines 114-118: run(["-V"]), whose YosysError
\* propagates, then the match on what run returned
SystemVersionOf(p) ==
    LET version == SystemRunResult(p)
        match   == SystemMatch(version.text)
    IN IF version.kind = "raise"
       THEN VerRaise(version.exc, version.text)
       ELSE IF match.matched
       THEN VerReturn(VersionTuple(match))
       ELSE VerRaise("TypeError", <<>>)

SystemVersion ==
    /\ proc.provider = "system"
    /\ verResult.kind = "none"
    /\ runResult.kind = "none"
    /\ runResult' = SystemRunResult(proc)
    /\ verResult' = SystemVersionOf(proc)
    /\ UNCHANGED <<proc, pkgVersion, findVars, pipeVars, twice, porVars, platVars>>

NextVer == BuiltinVersion \/ SystemVersion
SpecVer == InitVer /\ [][NextVer]_vars

(***************************************************************************)
(* The Gowin build pipeline                                                *)
(***************************************************************************)
Names == {"top", "blinky"}
File(dir, base, ext) == <<dir, base, ext>>
BitstreamFile(n) == File("impl/pnr/", n, ".fs")
RelocatedFile(n) == File("./", n, ".fs")

\* _gowin_file_templates, in the order of the dictionary
gowin_file_templates(n) ==
    << File("./", "build_script_templates", ""),
       File("./", n, ".il"),
       File("./", n, ".debug.v"),
       File("./", n, ".ys"),
       File("./", n, ".cst"),
       File("./", n, ".sdc"),
       File("./", "run", ".tcl") >>

\* _gowin_command_templates: the tool of each command and the files a
\* successful run may leave behind
gowin_command_templates(n) ==
    << [tool |-> "yosys", writes |-> {File("./", n, ".vg"), File("./", n, ".rpt")}],
       [tool |-> "gw_sh", writes |-> {BitstreamFile(n)}],
       [tool |-> "bash",  writes |-> {RelocatedFile(n)}] >>

\* `cp -f` that, like `rm -f`, does not complain about a missing source
CpExitForce(files, src) == 0

\* the exit status of `cp -f impl/pnr/{{name}}.fs ./`: -f only forces the
\* overwrite of the destination, a missing source is still an error
CpExit(files, src) == IF src \in files THEN 0 ELSE 1

\* a command whose exit status is masked (as by `|| true`)
CommandStatusMasked(cmd, toolExit) == 0

\* the exit status of a command template: each template is one plain tool
\* invocation, so the command's status is the tool's
CommandStatus(cmd, toolExit) == toolExit

ToolStderrs == { <<>>, <<"syntax error line 4">>, <<"syntax error line 4", NL>>,
                 <<" ", "ERROR (PR2017)">> }

\* the build steps: one artifact step per file template, then the commands
Steps(n) ==
    [i \in 1..Len(gowin_file_templates(n)) |->
        [kind |-> "artifact", tool |-> "", target |-> gowin_file_templates(n)[i]]]
    \o [i \in 1..Len(gowin_command_templates(n)) |->
        [kind |-> "command", tool |-> gowin_command_templates(n)[i].tool,
         target |-> File("", "", "")]]
CommandOf(n, i) == gowin_command_templates(n)[i - Len(gowin_file_templates(n))]

Success == [kind |-> "success", step |-> 0, error |-> <<>>]
Failure(i, err) == [kind |-> "failure", step |-> i, error |-> err]
Executed(i, exit, stderr) == [pos |-> i, exit |-> exit, stderr |-> stderr]

InitPipe ==
    /\ name \in Names
    /\ fs \in SUBSET {BitstreamFile(name), RelocatedFile(name)}
    /\ step = 1
    /\ executed = <<>>
    /\ pipeResult = NoPipeResult
    /\ IdleFind
    /\ IdleRun
    /\ IdleTwice /\ IdleVer /\ IdlePor /\ IdlePlat

\* an artifact step: render the text and write the target, or fail
ArtifactStep ==
    /\ pipeResult.kind = "none"
    /\ step <= Len(Steps(name))
    /\ Steps(name)[step].kind = "artifact"
    /\ \E outcome \in {"ok", "render error", "write error"} :
          IF outcome = "ok"
          THEN /\ fs' = fs \cup {Steps(name)[step].target}
               /\ executed' = Append(executed, Executed(step, 0, <<>>))
               /\ step' = step + 1
               /\ UNCHANGED pipeResult
          ELSE /\ executed' = Append(executed, Executed(step, 1, <<outcome>>))
               /\ pipeResult' = Failure(step, <<"ArtifactError", outcome>>)
               /\ UNCHANGED <<fs, step>>
    /\ UNCHANGED <<name, findVars, runVars, extVars>>

\* a command step running yosys or gw_sh: the tool ends with some exit code and
\* stderr; a run that exits 0 may or may not have left its output files
ToolStep ==
    /\ pipeResult.kind = "none"
    /\ step <= Len(Steps(name))
    /\ Steps(name)[step].kind = "command"
    /\ Steps(name)[step].tool \in {"yosys", "gw_sh"}
    /\ \E exit \in ReturnCodes, stderr \in ToolStderrs, wrote \in BOOLEAN :
          /\ (exit = 0 => stderr = <<>>)
          /\ (exit # 0 => ~wrote)
          /\ executed' = Append(executed, Executed(step, exit, stderr))
          /\ fs' = IF wrote THEN fs \cup CommandOf(name, step).writes ELSE fs
          /\ IF CommandStatus(CommandOf(name, step), exit) = 0
             THEN step' = step + 1 /\ UNCHANGED pipeResult
             ELSE /\ pipeResult' = Failure(step, <<"ToolExecutionError">> \o Strip(stderr))
                  /\ UNCHANGED step
    /\ UNCHANGED <<name, findVars, runVars, extVars>>

\* the relocation step: bash -c "cp -f impl/pnr/{{name}}.fs ./"
RelocateStep ==
    /\ pipeResult.kind = "none"
    /\ step <= Len(Steps(name))
    /\ Steps(name)[step].kind = "command"
    /\ Steps(name)[step].tool = "bash"
    /\ LET exit   == CpExit(fs, BitstreamFile(name))
           stderr == IF BitstreamFile(name) \in fs THEN <<>>
                     ELSE <<"cp: cannot stat">>
       IN /\ executed' = Append(executed, Executed(step, exit, stderr))
          /\ fs' = IF BitstreamFile(name) \in fs
                   THEN fs \cup CommandOf(name, step).writes ELSE fs
          /\ IF CommandStatus(CommandOf(name, step), exit) = 0
             THEN step' = step + 1 /\ UNCHANGED pipeResult
             ELSE /\ pipeResult' = Failure(step, <<"ToolExecutionError">> \o Strip(stderr))
                  /\ UNCHANGED step
    /\ UNCHANGED <<name, findVars, runVars, extVars>>

\* every step has run
Finish ==
    /\ pipeResult.kind = "none"
    /\ step > Len(Steps(name))
    /\ pipeResult' = Success
    /\ UNCHANGED <<name, fs, step, executed, findVars, runVars, extVars>>

NextPipe == ArtifactStep \/ ToolStep \/ RelocateStep \/ Finish
SpecPipe == InitPipe /\ [][NextPipe]_vars

(***************************************************************************)
(* create_missing_domain: the power-on-reset logic                         *)
(* One Tick is one rising edge of clk_i, which clocks both the "por" and   *)
(* the "sync" domain.  Signals hold 0 or 1 per bit; a Signal(range(n)) is  *)
(* as wide as its largest value n - 1 needs, and an assignment keeps the   *)
(* low bits of the value assigned.                                         *)
(***************************************************************************)
ClkStep == 66667     \* Hz between two clock frequencies explored
ClkFrequencies == {k * ClkStep : k \in 0..MaxClk}

\* line 198: int(15e-6 * f)
Delay(f) == (15 * f) \div 1000000

RECURSIVE BitsFor(_)
BitsFor(n) == IF n < 2 THEN 1 ELSE 1 + BitsFor(n \div 2)
RECURSIVE Pow2(_)
Pow2(w) == IF w = 0 THEN 1 ELSE 2 * Pow2(w - 1)

\* line 207: the width of Signal(range(d)); an empty range has no bits
TimerWidth(d) == IF d = 0 THEN 0 ELSE BitsFor(d - 1)
Truncate(v, w) == v % Pow2(w)

Not(b) == 1 - b
Or(a, b) == IF a = 1 \/ b = 1 THEN 1 ELSE 0

\* line 219: the asynchronous reset of the ResetSynchronizer
Arst(r, i) == Or(Not(r), i)

\* lines 219-221: ResetSignal("sync")
SyncReset == IF default_rst THEN reset_sync[2] ELSE Not(ready)

\* the flops of the ResetSynchronizer are held at 1 while arst is 1 and shift
\* a 0 in at a clock edge otherwise
FlopsHeld == <<1, 1>>
FlopsShift(f) == <<0, f[1]>>

InitPor ==
    /\ default_clk_frequency \in ClkFrequencies
    /\ delay = Delay(default_clk_frequency)
    /\ default_rst \in BOOLEAN
    /\ rst_i \in IF default_rst THEN {0, 1} ELSE {0}
    /\ timer = 0
    /\ ready = 0
    /\ reset_sync = FlopsHeld
    /\ IdleFind /\ IdleRun /\ IdlePipe /\ IdleTwice /\ IdleVer /\ IdlePlat

\* Tick with the timer counting on after it has reached the delay
TickFreeRunning ==
    /\ ready' = IF timer = delay THEN 1 ELSE ready
    /\ timer' = Truncate(timer + 1, TimerWidth(delay))
    /\ reset_sync' = IF default_rst /\ Arst(ready, rst_i) = 0
                     THEN FlopsShift(reset_sync)
                     ELSE FlopsHeld
    /\ UNCHANGED <<default_clk_frequency, delay, default_rst, rst_i>>
    /\ UNCHANGED <<findVars, runVars, pipeVars, twice, verVars, platVars>>

\* lines 209-212 and 219: a rising edge of clk_i
Tick ==
    /\ IF timer = delay
       THEN ready' = 1 /\ timer' = timer
       ELSE timer' = Truncate(timer + 1, TimerWidth(delay)) /\ ready' = ready
    /\ reset_sync' = IF default_rst /\ Arst(ready, rst_i) = 0
                     THEN FlopsShift(reset_sync)
                     ELSE FlopsHeld
    /\ UNCHANGED <<default_clk_frequency, delay, default_rst, rst_i>>
    /\ UNCHANGED <<findVars, runVars, pipeVars, twice, verVars, platVars>>

\* lines 200-203, 219: the external reset input changes between clock edges
SetRst ==
    /\ default_rst
    /\ rst_i' = Not(rst_i)
    /\ reset_sync' = IF Arst(ready, rst_i') = 1 THEN FlopsHeld ELSE reset_sync
    /\ UNCHANGED <<default_clk_frequency, delay, default_rst, timer, ready>>
    /\ UNCHANGED <<findVars, runVars, pipeVars, twice, verVars, platVars>>

NextPor == Tick \/ SetRst
SpecPor == InitPor /\ [][NextPor]_vars
\* clk_i is a free-running clock: edges keep coming
SpecPorFair == InitPor /\ [][NextPor]_vars /\ WF_vars(Tick)

(***************************************************************************)
(* GowinGW1NPlatform: the constructor and the toolchain-dependent          *)
(* properties.  A toolchain name is a sequence of one-character strings.   *)
(***************************************************************************)
MaxTool == 5         \* characters of the toolchain argument
ToolChars == {"G", "o", "w", "i", "n", "x"}
Gowin == <<"G", "o", "w", "i", "n">>

\* a in b for two strings: a occurs in b as a substring
In(a, b) == \E i \in 1..(Len(b) + 1) : HasAt(b, i, a)

Properties == {"_toolchain_env_var", "required_tools", "file_templates",
               "command_templates"}
\* what each property returns on its Gowin branch
GowinValue(prop, t) ==
    CASE prop = "_toolchain_env_var" -> <<"NMIGEN_ENV_">> \o t
      [] prop = "required_tools"     -> <<"_gowin_required_tools">>
      [] prop = "file_templates"     -> <<"_gowin_file_templates">>
      [] prop = "command_templates"  -> <<"_gowin_command_templates">>

InitPlat ==
    /\ toolchain \in SeqsUpTo(ToolChars, MaxTool)
    /\ platform = [state |-> "none", toolchain |-> <<>>]
    /\ access = NoAccess
    /\ IdleFind /\ IdleRun /\ IdlePipe /\ IdleTwice /\ IdleVer /\ IdlePor

\* lines 150-154: __init__; ("Gowin") is the string itself, not a tuple
Construct ==
    /\ platform.state = "none"
    /\ platform' = IF In(toolchain, Gowin)
                   THEN [state |-> "constructed", toolchain |-> toolchain]
                   ELSE [state |-> "AssertionError", toolchain |-> <<>>]
    /\ UNCHANGED <<toolchain, access>>
    /\ UNCHANGED <<findVars, runVars, pipeVars, twice, verVars, porVars>>

\* lines 166-188: a read of one of the four properties
ReadProperty(prop) ==
    /\ platform.state = "constructed"
    /\ access' = IF platform.toolchain = Gowin
                 THEN [property |-> prop, kind |-> "return",
                       value |-> GowinValue(prop, platform.toolchain)]
                 ELSE [property |-> prop, kind |-> "raise",
                       value |-> <<"AssertionError">>]
    /\ UNCHANGED <<toolchain, platform>>
    /\ UNCHANGED <<findVars, runVars, pipeVars, twice, verVars, porVars>>

NextPlat == Construct \/ \E prop \in Properties : ReadProperty(prop)
SpecPlat == InitPlat /\ [][NextPlat]_vars

(***************************************************************************)
(* Properties of find_yosys                                                *)
(***************************************************************************)
\* the provider order the configuration names, when every clause is a name
AllRecognized == \A i \in 1..Len(clauses) : ProxyOf(clauses[i]) # ""
Order == [i \in 1..Len(clauses) |-> ProxyOf(clauses[i])]
Acceptable(p) ==
    /\ installs[p].available
    /\ installs[p].version.ok
    /\ Requirement(requirement, installs[p].version.ver)
Hits == { i \in 1..Len(clauses) : Acceptable(Order[i]) }
FirstHit == CHOOSE i \in Hits : \A j \in Hits : i <= j
VersionLess(a, b) ==
    \/ a[1] < b[1]
    \/ a[1] = b[1] /\ a[2] < b[2]
    \/ a[1] = b[1] /\ a[2] = b[2] /\ a[3] < b[3]
Made(op, i) == \E k \in 1..Len(calls) : calls[k].op = op /\ calls[k].pos = i
EndsWith(text, tail) ==
    /\ Len(tail) <= Len(text)
    /\ SubSeq(text, Len(text) - Len(tail) + 1, Len(text)) = tail

\* C1: whenever the order holds a provider that is available and whose version
\* the requirement accepts, find_yosys returns the first such provider of the
\* order.
C1_FirstAcceptableReturned ==
    (pc = "done" /\ AllRecognized /\ Hits # {})
        => /\ result.kind = "return"
           /\ result.pos = FirstHit
           /\ result.proxy = Order[FirstHit]

\* C2: a candidate that is available but whose version() raises is passed over:
\* find_yosys does not end with that candidate's error, and the candidate after
\* it, if any, is probed.
C2_VersionFailureAbsorbed ==
    pc = "done" =>
        \A k \in 1..Len(calls) :
            (calls[k].op = "version" /\ ~installs[calls[k].proxy].version.ok)
                => /\ ~(result.kind = "raise" /\ result.line = 168)
                   /\ (calls[k].pos < Len(proxies) => Made("available", calls[k].pos + 1))

\* C3: an empty NMIGEN_USE_YOSYS is read like an unset one: the clauses are those
\* of the default order and no unrecognized-clause error is raised.
C3_EmptyLikeUnset ==
    (pc # "start" /\ (~environ.set \/ environ.value = <<>>))
        => /\ clauses = Split(DefaultValue)
           /\ ~(result.kind = "raise" /\ result.line = 164)

\* C4: when no provider of the order is both available and acceptable,
\* find_yosys raises the resolution error and its message lists the candidates
\* tried, in order, for a configured order and for the default order alike.
C4_FailureListsCandidates ==
    (pc = "done" /\ AllRecognized /\ Hits = {})
        => /\ result.kind = "raise"
           /\ result.exc = "YosysError"
           /\ result.line \in {172, 175}
           /\ EndsWith(result.text, Join(clauses))

\* C5: no provider method and no requirement call is made while the clauses are
\* being looked up, and an order with an unrecognized clause ends in the
\* unrecognized-clause error, naming the first such clause, with no call made.
FirstUnrecognized ==
    CHOOSE i \in 1..Len(clauses) :
        /\ ProxyOf(clauses[i]) = ""
        /\ \A j \in 1..(i-1) : ProxyOf(clauses[j]) # ""
C5_ConfigErrorBeforeProbe ==
    /\ pc \in {"start", "parse"} => calls = <<>>
    /\ (pc = "done" /\ ~AllRecognized)
           => /\ result = Raise("YosysError", 164,
                                <<"unrecognized clause ">> \o clauses[FirstUnrecognized])
              /\ calls = <<>>
\* an unrecognized clause after a clause naming an available provider
C5_Witness ==
    /\ pc = "done"
    /\ result.kind = "raise" /\ result.line = 164
    /\ Len(proxies) >= 1
    /\ installs[proxies[1]].available

\* C6: once a provider at position i has been returned, no call has been made
\* for a later position, and from then on no call is made and the result stays.
C6_NoProbeAfterHit ==
    /\ [](result.kind = "return" =>
            /\ \A k \in 1..Len(calls) : calls[k].pos <= result.pos
            /\ result.proxy = proxies[result.pos])
    /\ [][result.kind = "return" => (calls' = calls /\ result' = result)]_vars
\* a later provider is acceptable too, with a newer version, and was not probed
C6_Witness ==
    /\ result.kind = "return"
    /\ \E j \in (result.pos + 1)..Len(proxies) :
          /\ Acceptable(proxies[j])
          /\ VersionLess(installs[result.proxy].version.ver,
                         installs[proxies[j]].version.ver)
          /\ ~Made("available", j)

(***************************************************************************)
(* Properties of run                                                       *)
(***************************************************************************)
\* t is s without its leading and trailing whitespace
Trimmed(t, s) ==
    \E i \in 1..(Len(s) + 1), j \in 0..Len(s) :
        /\ t = SubSeq(s, i, j)
        /\ \A k \in 1..(i - 1) : s[k] \in Whitespace
        /\ \A k \in (j + 1)..Len(s) : s[k] \in Whitespace
        /\ t # <<>> => (t[1] \notin Whitespace /\ t[Len(t)] \notin Whitespace)

\* a line of text ending in its newline, with nothing after the newline
IsLine(l) == Len(l) >= 1 /\ l[Len(l)] = NL /\ \A i \in 1..(Len(l) - 1) : l[i] # NL
\* banner lines: a blank line, or a line beginning with the marker prefix `--`
MarkedLine(l) == IsLine(l) /\ (Len(l) = 1 \/ (Len(l) >= 3 /\ l[1] = "-" /\ l[2] = "-"))
\* banner lines: a blank line, or a line of `-- ` followed by some text
MarkedTextLine(l) ==
    IsLine(l) /\ (Len(l) = 1 \/ (Len(l) >= 5 /\ l[1] = "-" /\ l[2] = "-" /\ l[3] = " "))

RECURSIVE IsRunOf(_, _)
IsRunOf(Banner(_), p) ==
    \/ p = <<>>
    \/ \E m \in 1..Len(p) :
          Banner(SubSeq(p, 1, m)) /\ IsRunOf(Banner, SubSeq(p, m + 1, Len(p)))
StartsWith(Banner(_), s) == \E m \in 1..Len(s) : Banner(SubSeq(s, 1, m))
\* out is s without the maximal run of banner lines at its start
WithoutBanner(Banner(_), out, s) ==
    \E k \in 0..Len(s) :
        /\ IsRunOf(Banner, SubSeq(s, 1, k))
        /\ out = SubSeq(s, k + 1, Len(s))
        /\ ~StartsWith(Banner, out)

RaisedTrimmedStderr ==
    /\ runResult.kind = "raise"
    /\ runResult.exc = "YosysError"
    /\ Trimmed(runResult.text, proc.stderr)

C10_StripsMarkedLines ==
    (proc.provider = "system" /\ runResult.kind = "return")
        => WithoutBanner(MarkedLine, runResult.text, proc.stdout)

(***************************************************************************)
(* Properties of the build pipeline                                        *)
(***************************************************************************)
Failed == { i \in 1..Len(executed) : executed[i].exit # 0 }
FirstFailed == CHOOSE i \in Failed : \A j \in Failed : i <= j
RelocatePos(n) == CHOOSE i \in 1..Len(Steps(n)) : Steps(n)[i].tool = "bash"
RelocateRan == \E i \in 1..Len(executed) : executed[i].pos = RelocatePos(name)

C11_SanitizeIdempotent ==
    twice # NoText => twice = runResult.text
\* the first pass removed banner lines, the second pass had real text to keep
C11_Witness ==
    /\ twice # NoText
    /\ twice # <<>>
    /\ Len(runResult.text) + 2 <= Len(proc.stdout)

(***************************************************************************)
(* Properties of version                                                   *)
(***************************************************************************)
\* the decimal numeral of n
DigitChars == <<"0", "1", "2", "3", "4", "5", "6", "7", "8", "9">>
RECURSIVE Dec(_)
Dec(n) == IF n < 10 THEN <<DigitChars[n + 1]>> ELSE Dec(n \div 10) \o <<DigitChars[(n % 10) + 1]>>
Numbers == {0, 1, 10, 11, 100}
\* the version text version() reads: the package version, or the -V output
VersionText == IF proc.provider = "builtin" THEN pkgVersion ELSE proc.stdout
Tagged(provider, M, N) ==
    IF provider = "builtin" THEN Dec(M) \o <<".">> \o Dec(N)
    ELSE <<"Yosys ">> \o Dec(M) \o <<".">> \o Dec(N)
WithDistance(provider, M, N, D) ==
    IF provider = "builtin" THEN Tagged(provider, M, N) \o <<".", "post">> \o Dec(D)
    ELSE Tagged(provider, M, N) \o <<"+">> \o Dec(D)
\* the well-formed version strings of a provider, each with the triple it denotes
WellFormed(provider) ==
    { [text |-> Tagged(provider, M, N), ver |-> <<M, N, 0>>] :
          M \in Numbers, N \in Numbers }
    \cup { [text |-> WithDistance(provider, M, N, D), ver |-> <<M, N, D>>] :
          M \in Numbers, N \in Numbers, D \in Numbers }
WellFormedBuiltin == WellFormed("builtin")
WellFormedSystem  == WellFormed("system")

\* C12: for both providers, M.N.postD / Yosys M.N+D parses to (M, N, D), the
\* string without the distance part parses to (M, N, 0), and no component of a
\* returned version is negative.
C12_VersionParsed ==
    (verResult.kind # "none" /\ proc.returncode = 0) =>
        /\ \A w \in (IF proc.provider = "builtin" THEN WellFormedBuiltin
                     ELSE WellFormedSystem) :
              VersionText = w.text => verResult = VerReturn(w.ver)
        /\ verResult.kind = "return" => \A i \in 1..3 : verResult.ver[i] >= 0
\* `Yosys 1.0+1` parsed by the system provider
C12_Witness ==
    /\ proc.provider = "system"
    /\ proc.stdout = <<"Yosys ", "1", ".", "0", "+", "1">>
    /\ verResult = VerReturn(<<1, 0, 1>>)

\* C13: for both providers, version() on a string its pattern does not match
\* raises VersionQueryError.
C13_MalformedRaisesVersionQueryError ==
    (verResult.kind # "none" /\ proc.returncode = 0
     /\ ~(IF proc.provider = "builtin" THEN BuiltinMatch(pkgVersion).matched
          ELSE SystemMatch(Sanitize(proc.stdout)).matched))
        => verResult.kind = "raise" /\ verResult.exc = "VersionQueryError"

\* C14: version() and the requirement are called only for a provider whose
\* available() returned true, the requirement with that provider's version; an
\* unavailable provider is passed over and the provider after it is probed.
C14_UnavailableSkipped ==
    \A k \in 1..Len(calls) :
        LET c == calls[k]
        IN /\ c.op \in {"version", "requirement"}
                 => installs[c.proxy].available /\ Made("available", c.pos)
           /\ c.op = "requirement"
                 => /\ installs[c.proxy].version.ok
                    /\ c.arg = installs[c.proxy].version.ver
           /\ (c.op = "available" /\ ~installs[c.proxy].available)
                 => /\ ~Made("version", c.pos) /\ ~Made("requirement", c.pos)
                    /\ (pc = "done" /\ c.pos < Len(proxies))
                           => Made("available", c.pos + 1)
\* an unavailable provider was passed over and the next one's version checked
C14_Witness ==
    /\ pc = "done"
    /\ \E i \in 1..Len(proxies) :
          /\ Made("available", i) /\ ~installs[proxies[i]].available
          /\ Made("requirement", i + 1)

\* C15: the resolution error raised when the loop ends without a hit names the
\* clauses tried exactly when NMIGEN_USE_YOSYS is set (also when set to the
\* default value); with the variable unset it is the variant suggesting the
\* nmigen_yosys package, which lists no clause.
LoopExhausted ==
    /\ pc = "done"
    /\ AllRecognized
    /\ result.kind = "raise"
    /\ \A i \in 1..Len(proxies) : Made("available", i)
    /\ \A k \in 1..Len(calls) :
          calls[k].op = "version" => installs[calls[k].proxy].version.ok
C15_ErrorVariant ==
    /\ LoopExhausted =>
          /\ result.exc = "YosysError"
          /\ result.line \in {172, 175}
          /\ result.line = 172 <=> environ.set
    /\ (result.kind = "raise" /\ result.line = 172)
          => /\ Head(result.text) = "Searched: "
             /\ EndsWith(result.text, Join(clauses))
    /\ (result.kind = "raise" /\ result.line = 175)
          => /\ result.text = <<"nmigen_yosys fallback">>
             /\ ~EndsWith(result.text, Join(clauses))
\* the variable set to the very value of the default: the clauses are named
C15_Witness ==
    /\ LoopExhausted
    /\ environ.set
    /\ environ.value = DefaultValue
    /\ result.text = <<"Searched: ", "system", ", ", "builtin">>

\* C16: for every default clock frequency the power-on-reset timer eventually
\* reaches the delay and ready becomes 1, delays that are a power of two
\* included.
C16_EventuallyReady == <>(ready = 1)

\* C17: the sync reset is asserted whenever ready is 0 or the external reset
\* input is 1; ready never returns from 1 to 0; the timer keeps its value once
\* it equals the delay.
C17_PorSafety ==
    /\ []((ready = 0 \/ rst_i = 1) => SyncReset = 1)
    /\ [][ready = 1 => ready' = 1]_vars
    /\ [][timer = delay => timer' = timer]_vars
\* the external reset asserted after the timer has run out and the reset had
\* been released
C17_Witness ==
    /\ default_rst
    /\ delay > 0
    /\ timer = delay
    /\ ready = 1
    /\ rst_i = 1
    /\ SyncReset = 1
    /\ reset_sync = FlopsHeld

(***************************************************************************)
(* _SystemYosys.version on a -V output that begins with banner lines       *)
(***************************************************************************)
MaxBanner == 2       \* banner lines before the version line
\* a blank line, `-- ` alone, `-- ` followed by text
BannerLines == {<<NL>>, <<"-", "-", " ", NL>>, <<"-", "-", " ", "x", NL>>}
RECURSIVE BannerRuns(_)
BannerRuns(n) ==
    IF n = 0 THEN {<<>>}
    ELSE BannerRuns(n - 1) \cup {l \o r : l \in BannerLines, r \in BannerRuns(n - 1)}
\* `Yosys M.N[+D]`, the line ended or not
VersionLines == {w.text \o e : w \in WellFormedSystem, e \in {<<>>, <<NL>>}}
BannerOutputs == {b \o v : b \in BannerRuns(MaxBanner), v \in VersionLines}

InitBanner ==
    /\ proc \in [provider : {"system"}, stdout : BannerOutputs,
                 stderr : {<<>>}, returncode : {0}]
    /\ pkgVersion = <<>>
    /\ runResult = [kind |-> "none", exc |-> "", text |-> <<>>]
    /\ verResult = NoVerResult
    /\ IdleFind /\ IdlePipe /\ IdleTwice /\ IdlePor /\ IdlePlat

NextBanner == SystemVersion
SpecBanner == InitBanner /\ [][NextBanner]_vars

\* banner lines: a blank line, or a line beginning with `-- `
PrefixedLine(l) ==
    IsLine(l) /\ (Len(l) = 1 \/ (Len(l) >= 4 /\ l[1] = "-" /\ l[2] = "-" /\ l[3] = " "))
IsVersionLine(s) == s \in VersionLines
\* version() of the output gave what version() gives for the output without
\* its run of banner lines, and that is a triple
BannerIgnored(Banner(_)) ==
    (proc.provider = "system" /\ proc.returncode = 0 /\ verResult.kind # "none") =>
        \A k \in 0..Len(proc.stdout) :
            LET rest == SubSeq(proc.stdout, k + 1, Len(proc.stdout))
            IN (IsRunOf(Banner, SubSeq(proc.stdout, 1, k)) /\ IsVersionLine(rest))
                  => /\ verResult.kind = "return"
                     /\ verResult = SystemVersionOf([proc EXCEPT !.stdout = rest])

\* C18: for every -V output made of a run of banner lines (blank, or beginning
\* with `-- `) followed by a valid `Yosys M.N[+D]` line, the system provider's
\* version() returns the triple it returns for the output without the banner.
C18_BannerIgnored == BannerIgnored(PrefixedLine)

\* C19: a platform is constructed only with the toolchain "Gowin" exactly (the
\* empty string and proper substrings are rejected), so no read of
\* required_tools, file_templates, command_templates or _toolchain_env_var of
\* a constructed platform reaches `assert False`.
C19_OnlyGowinConstructed ==
    /\ platform.state = "constructed" => toolchain = Gowin
    /\ access.kind # "raise"

====
